---- MODULE Spec2Model ----
(***************************************************************************)
(* The request handlers of the ytdownloader-pro backends.  The repository  *)
(* holds six near-duplicate Express servers:                               *)
(*   "server.js"  src/backend/server.js                                    *)
(*   "index.js"   src/backend/index.js                                     *)
(*   "part_000a"  src/unnamed/part_000, lines 1-38                         *)
(*   "part_000b"  src/unnamed/part_000, lines 40-355                       *)
(*   "part_001"   src/unnamed/part_001                                     *)
(*   "part_002"   src/unnamed/part_002                                     *)
(* A behaviour runs one of them (variable variant).  A handler runs to     *)
(* completion between two awaits, so every action is one such segment: the *)
(* arrival of a request up to its first await, or the resumption after an  *)
(* awaited external call (library, HTTP, child process, stream event)      *)
(* whose outcome is chosen nondeterministically.                           *)
(*                                                                         *)
(* Strings that the code takes apart (URLs, identifiers) are sequences of  *)
(* tokens; template strings are concatenations of such sequences.          *)
(***************************************************************************)
EXTENDS Integers, Sequences, FiniteSets, TLC

\* ------------------------------------------------------------------ bounds
\* Requests per behaviour (they may overlap in time).
MaxReq == 2
\* Last instant of the modelled clock, in ticks of MsPerTick after start-up.
MaxTime == 13

Reqs == 1..MaxReq

\* ------------------------------------------------------------ time scale
\* One tick of the clock is five minutes: every duration of the code is a
\* multiple of it.
MsPerTick == 5 * 60 * 1000

CACHE_DURATION(v) ==
  IF v = "server.js" THEN (5 * 60 * 1000) \div MsPerTick
                     ELSE (10 * 60 * 1000) \div MsPerTick

\* Period of the setInterval sweep of server.js and part_002.
SWEEP_INTERVAL == (60 * 60 * 1000) \div MsPerTick

\* Delay of the setTimeout that deletes a videoCache record.
CLEAR_DELAY(v) ==
  IF v = "index.js" THEN (5 * 60 * 1000) \div MsPerTick
                    ELSE (10 * 60 * 1000) \div MsPerTick

\* ---------------------------------------------------------------- values
Variants == {"server.js", "index.js", "part_000a", "part_000b", "part_001", "part_002"}

\* A query parameter that the request does not carry (req.query.x === undefined).
Undefined == <<"<undefined>">>
\* The empty string, e.g. ?url=
Empty == <<>>
\* JavaScript null, and what a template string makes of it.
Null == "null"

\* !x of the code, for a query parameter.
Falsy(p) == p = Undefined \/ p = Empty

\* Eleven-character video identifiers.
VideoIds == {"aaaaaaaaaaa", "bbbbbbbbbbb", "ccccccccccc"}

U_watch == <<"https://www.youtube.com/", "watch?", "v=", "aaaaaaaaaaa">>
U_embedB == <<"https://www.youtube.com/", "embed/", "bbbbbbbbbbb">>
U_embedC == <<"https://www.youtube.com/", "embed/", "ccccccccccc">>
U_bare == <<"aaaaaaaaaaa">>
U_junk == <<"https://example.com/", "page">>

\* The first index i of url with url[i] a marker and url[i+1] an identifier,
\* 0 when there is none: the leftmost match of  marker([a-zA-Z0-9_-]{11}).
FirstMatch(url, markers) ==
  LET hits == {i \in 1..(Len(url) - 1) : url[i] \in markers /\ url[i + 1] \in VideoIds}
  IN IF hits = {} THEN 0 ELSE CHOOSE i \in hits : \A j \in hits : i <= j

\* extractVideoId of server.js and part_002: the two patterns in order, the
\* first capture group of the first that matches, else null.  On undefined
\* url.match throws (ExtractThrows).
ExtractThrows(url) == url = Undefined

extractVideoId(url) ==
  LET i == FirstMatch(url, {"v=", "youtu.be/", "shorts/"})
  IN IF i > 0 THEN url[i + 1]
     ELSE IF Len(url) = 1 /\ url[1] \in VideoIds THEN url[1]
     ELSE Null

\* ytdl.validateURL (library): a YouTube host and an identifier that the
\* library's own parser finds (v= parameter, or an /embed/, /shorts/, /v/,
\* /live/ path).
YoutubeHosts == {"https://www.youtube.com/", "https://youtu.be/"}

LibMarkers == {"v=", "embed/", "shorts/", "v/", "live/"}

validateURL(url) ==
  /\ Len(url) >= 2
  /\ url[1] \in YoutubeHosts
  /\ FirstMatch(url, LibMarkers) > 0

\* The video the library resolves a valid URL to.
URLVideoID(url) == url[FirstMatch(url, LibMarkers) + 1]

\* `https://www.youtube.com/watch?v=${videoId}`
WatchUrl(videoId) == <<"https://www.youtube.com/", "watch?", "v=">> \o videoId

\* A videoId parameter as the string it is.
Str(p) == IF p = Empty THEN "" ELSE p[1]

\* ---------------------------------------------------------- payloads
\* A metadata payload: the identifier it carries, which extraction produced
\* it (gen: the ordinal of the successful ytdl.getInfo, 0 for none) and its
\* source.
NoData == [id |-> "", gen |-> 0, src |-> "none"]

Meta(id, gen, src) == [id |-> id, gen |-> gen, src |-> src]

\* One res.status(..).json/send, res.json, res.redirect or first piped chunk.
Resp(status, body, data, tag) ==
  [status |-> status, body |-> body, data |-> data, tag |-> tag]

\* ---------------------------------------------------------------- state
VARIABLES
  variant,      \* which server runs
  now,          \* Date.now(), in ticks since start-up
  cache,        \* the Map cache / videoCache: key -> record
  timers,       \* pending setTimeout deletions of videoCache, by creating request
  nextSweep,    \* when the setInterval sweep is next due
  gen,          \* successful ytdl.getInfo calls so far
  crashed,      \* the process died of an unhandled 'error' event
  reqs,         \* the requests: parameters, position, responses sent, calls made
  lastStore     \* history: per key, the record of the latest cache.set and its URL

vars == <<variant, now, cache, timers, nextSweep, gen, crashed, reqs, lastStore>>

\* A request: its route and query, where its handler stands (pc), what it has
\* sent (resp, in order; headersSent as res.headersSent), the external calls
\* it has made (calls) with the outcomes of those that completed (outs), and
\* the loop indices of its fallback chain (k outer, j inner).  found is
\* history: what the cache lookup of an /api/info request met ("absent", a
\* "stale" record, or a "hit").
IdleReq ==
  [route |-> "", param |-> Undefined, type |-> Undefined,
   pc |-> "idle", resp |-> <<>>, headersSent |-> FALSE,
   calls |-> <<>>, outs |-> <<>>, k |-> 0, j |-> 0, found |-> ""]

NoTimer == [key |-> Undefined, due |-> -1]

EmptyMap == [x \in {} |-> NoData]

MapSet(m, key, v) == [x \in DOMAIN m \cup {key} |-> IF x = key THEN v ELSE m[x]]

MapDelete(m, key) == [x \in DOMAIN m \ {key} |-> m[x]]

Init ==
  /\ variant \in Variants
  /\ now = 0
  /\ cache = EmptyMap
  /\ timers = [r \in Reqs |-> NoTimer]
  /\ nextSweep = SWEEP_INTERVAL
  /\ gen = 0
  /\ crashed = FALSE
  /\ reqs = [r \in Reqs |-> IdleReq]
  /\ lastStore = EmptyMap

\* Requests arrive in the order of their numbers.
CanArrive(r) ==
  /\ ~crashed
  /\ reqs[r].pc = "idle"
  /\ IF r = 1 THEN TRUE ELSE reqs[r - 1].pc # "idle"

\* The request after the handler sent `resp` and returned.
Answer(q, resp) ==
  [q EXCEPT !.resp = Append(@, resp), !.pc = "done", !.headersSent = TRUE]

\* The request whose awaited call completed with outcome `out`; outs keeps
\* whether the call gave the handler a usable result.
Got(q, out) == [q EXCEPT !.outs = Append(@, IF out = "ok" THEN "ok" ELSE "failed")]

\* The request suspended at an await on external call `call`.
Await(q, call, pc) == [q EXCEPT !.calls = Append(@, call), !.pc = pc]

Msg(s) == <<s>>

Json == Msg("json")

\* What an awaited call may do: succeed with a usable result, succeed with
\* a result the handler's own processing throws on, or fail.
Outcomes == {"ok", "malformed", "fail"}

\* ============================================================ metadata
\* ---- GET /api/info of server.js and part_002 (cache-aside on a Map)
InfoUrls == {Undefined, U_junk, U_watch, U_embedB, U_embedC}

\* const cacheKey = `info:${url}`   |   `info_${extractVideoId(url)}`
CacheKey(v, url) ==
  IF v = "server.js" THEN <<"info:">> \o url ELSE <<"info_", extractVideoId(url)>>

\* Variants of CacheFresh with the comparison wrong.
CacheFresh_Inverted(rec, t, v) == t - rec.timestamp > CACHE_DURATION(v)

CacheFresh_Inclusive(rec, t, v) == t - rec.timestamp <= CACHE_DURATION(v)

\* Date.now() - cached.timestamp < CACHE_DURATION
CacheFresh(rec, t, v) == t - rec.timestamp < CACHE_DURATION(v)

\* cached && fresh   |   videoCache.has(cacheKey) and fresh
CacheHit(v, key, t) == key \in DOMAIN cache /\ CacheFresh(cache[key], t, v)

UrlRequiredMsg(v) ==
  IF v = "server.js" THEN Msg("URL is required") ELSE Msg("YouTube URL is required")

InfoFailedMsg(v) ==
  IF v = "server.js" THEN Msg("Failed to get video info")
                     ELSE Msg("Failed to get video information")

\* The id field of videoInfo: info.videoDetails.videoId | the extracted id.
VideoInfoId(v, url) == IF v = "server.js" THEN URLVideoID(url) ELSE extractVideoId(url)

\* The handler from its entry to the first await.
UrlApiInfoEntry(v, q, url) ==
  IF Falsy(url) THEN Answer(q, Resp(400, UrlRequiredMsg(v), NoData, ""))
  ELSE IF ~validateURL(url) THEN Answer(q, Resp(400, Msg("Invalid YouTube URL"), NoData, ""))
  ELSE IF CacheHit(v, CacheKey(v, url), now)
       THEN Answer([q EXCEPT !.found = "hit"],
                   Resp(200, Json, cache[CacheKey(v, url)].data, "cached"))
       ELSE Await([q EXCEPT !.found = IF CacheKey(v, url) \in DOMAIN cache
                                      THEN "stale" ELSE "absent"],
                  "ytdl.getInfo", "getInfo")

UrlApiInfo(v, r) ==
  /\ variant = v
  /\ CanArrive(r)
  /\ \E url \in InfoUrls :
       reqs' = [reqs EXCEPT ![r] =
                  UrlApiInfoEntry(v, [IdleReq EXCEPT !.route = "/api/info", !.param = url], url)]
  /\ UNCHANGED <<variant, now, cache, timers, nextSweep, gen, crashed, lastStore>>

\* A variant of UrlApiInfoCatch whose rethrow is not caught: no answer.
UrlApiInfoCatch_Unanswered(v, q) ==
  IF extractVideoId(q.param) = Null
  THEN [q EXCEPT !.pc = "uncaught"]
  ELSE Await(q, "noembed", "fallback")

\* A variant of UrlApiInfoCatch without the fallback: 500 at once.
UrlApiInfoCatch_NoFallback(v, q) ==
  Answer(q, Resp(500, InfoFailedMsg(v), NoData, ""))

\* The catch block up to its await: no id in the URL rethrows into the inner
\* catch, which answers 500.
UrlApiInfoCatch(v, q) ==
  IF extractVideoId(q.param) = Null
  THEN Answer(q, Resp(500, InfoFailedMsg(v), NoData, ""))
  ELSE Await(q, "noembed", "fallback")

\* A variant of UrlApiInfoGotInfo whose store does not replace a record
\* that is already under the key.
UrlApiInfoGotInfo_KeepsFirst(v, r) ==
  /\ variant = v
  /\ ~crashed
  /\ reqs[r].route = "/api/info"
  /\ reqs[r].pc = "getInfo"
  /\ \E out \in Outcomes :
       LET q == Got(reqs[r], out)
           key == CacheKey(v, q.param)
           videoInfo == Meta(VideoInfoId(v, q.param), gen + 1, "ytdl")
           rec == [data |-> videoInfo, timestamp |-> now]
       IN IF out = "ok"
          THEN /\ gen' = gen + 1
               /\ cache' = IF key \in DOMAIN cache THEN cache ELSE MapSet(cache, key, rec)
               /\ lastStore' = MapSet(lastStore, key,
                     [data |-> videoInfo, timestamp |-> now, url |-> q.param])
               /\ reqs' = [reqs EXCEPT ![r] = Answer(q, Resp(200, Json, videoInfo, "fresh"))]
          ELSE /\ reqs' = [reqs EXCEPT ![r] = UrlApiInfoCatch(v, q)]
               /\ UNCHANGED <<gen, cache, lastStore>>
  /\ UNCHANGED <<variant, now, timers, nextSweep, crashed>>

\* ytdl.getInfo settled.
UrlApiInfoGotInfo(v, r) ==
  /\ variant = v
  /\ ~crashed
  /\ reqs[r].route = "/api/info"
  /\ reqs[r].pc = "getInfo"
  /\ \E out \in Outcomes :
       LET q == Got(reqs[r], out)
           key == CacheKey(v, q.param)
           videoInfo == Meta(VideoInfoId(v, q.param), gen + 1, "ytdl")
           rec == [data |-> videoInfo, timestamp |-> now]
       IN IF out = "ok"
          THEN /\ gen' = gen + 1
               /\ cache' = MapSet(cache, key, rec)
               /\ lastStore' = MapSet(lastStore, key,
                     [data |-> videoInfo, timestamp |-> now, url |-> q.param])
               /\ reqs' = [reqs EXCEPT ![r] = Answer(q, Resp(200, Json, videoInfo, "fresh"))]
          ELSE /\ reqs' = [reqs EXCEPT ![r] = UrlApiInfoCatch(v, q)]
               /\ UNCHANGED <<gen, cache, lastStore>>
  /\ UNCHANGED <<variant, now, timers, nextSweep, crashed>>

\* getFallbackInfo: the noembed title, or the fixed default when the call
\* fails; it never throws.
getFallbackInfo(videoId, out) ==
  Meta(videoId, 0, IF out = "fail" THEN "default" ELSE "noembed")

UrlApiInfoFallback(v, r) ==
  /\ variant = v
  /\ ~crashed
  /\ reqs[r].route = "/api/info"
  /\ reqs[r].pc = "fallback"
  /\ \E out \in {"ok", "fail"} :
       LET q == Got(reqs[r], out)
       IN reqs' = [reqs EXCEPT ![r] =
            Answer(q, Resp(200, Json, getFallbackInfo(extractVideoId(q.param), out), "fallback"))]
  /\ UNCHANGED <<variant, now, cache, timers, nextSweep, gen, crashed, lastStore>>

ServerApiInfo(r) == UrlApiInfo("server.js", r)

ServerApiInfoGotInfo(r) == UrlApiInfoGotInfo("server.js", r)

ServerApiInfoFallback(r) == UrlApiInfoFallback("server.js", r)

Part002ApiInfo(r) == UrlApiInfo("part_002", r)

Part002ApiInfoGotInfo(r) == UrlApiInfoGotInfo("part_002", r)

Part002ApiInfoFallback(r) == UrlApiInfoFallback("part_002", r)

\* ---- GET /api/info of index.js and part_000b (videoCache, written only)
InfoIds == {Undefined, <<"aaaaaaaaaaa">>, <<"bbbbbbbbbbb">>}

\* The record of index.js carries no timestamp field.
NoTimestamp == 0 - 1

VideoIdApiInfo(v, r) ==
  /\ variant = v
  /\ CanArrive(r)
  /\ \E videoId \in InfoIds :
       LET q == [IdleReq EXCEPT !.route = "/api/info", !.param = videoId]
       IN reqs' = [reqs EXCEPT ![r] =
            IF Falsy(videoId)
            THEN Answer(q, Resp(400, Msg("Video ID required"), NoData, ""))
            ELSE Await([q EXCEPT !.found = IF videoId \in DOMAIN cache
                                           THEN "present" ELSE "absent"],
                       "ytdl.getInfo", "getInfo")]
  /\ UNCHANGED <<variant, now, cache, timers, nextSweep, gen, crashed, lastStore>>

\* ytdl.getInfo settled: videoCache.set, setTimeout(delete), res.json; or the
\* catch block, which awaits getVideoInfoFallback.
VideoIdApiInfoGotInfo(v, r) ==
  /\ variant = v
  /\ ~crashed
  /\ reqs[r].route = "/api/info"
  /\ reqs[r].pc = "getInfo"
  /\ \E out \in Outcomes :
       LET q == Got(reqs[r], out)
           videoId == q.param
           videoDetails == Meta(Str(videoId), gen + 1, "ytdl")
       IN IF out = "ok"
          THEN /\ gen' = gen + 1
               /\ cache' = MapSet(cache, videoId,
                     [data |-> videoDetails,
                      timestamp |-> IF v = "index.js" THEN NoTimestamp ELSE now])
               /\ lastStore' = MapSet(lastStore, videoId,
                     [data |-> videoDetails, timestamp |-> now, url |-> WatchUrl(videoId)])
               /\ timers' = [timers EXCEPT ![r] = [key |-> videoId, due |-> now + CLEAR_DELAY(v)]]
               /\ reqs' = [reqs EXCEPT ![r] = Answer(q, Resp(200, Json, videoDetails, "fresh"))]
          ELSE /\ reqs' = [reqs EXCEPT ![r] = Await(q, "noembed", "fallback")]
               /\ UNCHANGED <<gen, cache, lastStore, timers>>
  /\ UNCHANGED <<variant, now, nextSweep, crashed>>

\* A variant of VideoIdApiInfoFallback that gives up although noembed
\* answered.
VideoIdApiInfoFallback_GivesUp(v, r) ==
  /\ variant = v
  /\ ~crashed
  /\ reqs[r].route = "/api/info"
  /\ reqs[r].pc = "fallback"
  /\ \E out \in {"ok", "fail"} :
       reqs' = [reqs EXCEPT ![r] =
         Answer(Got(reqs[r], out), Resp(500, Msg("Failed to fetch video info"), NoData, ""))]
  /\ UNCHANGED <<variant, now, cache, timers, nextSweep, gen, crashed, lastStore>>

\* getVideoInfoFallback settled: its payload, or it rethrew and the handler
\* answers 500.
VideoIdApiInfoFallback(v, r) ==
  /\ variant = v
  /\ ~crashed
  /\ reqs[r].route = "/api/info"
  /\ reqs[r].pc = "fallback"
  /\ \E out \in {"ok", "fail"} :
       LET q == Got(reqs[r], out)
       IN reqs' = [reqs EXCEPT ![r] =
            IF out = "ok"
            THEN Answer(q, Resp(200, Json, Meta(Str(q.param), 0, "noembed"), "fallback"))
            ELSE Answer(q, Resp(500, Msg("Failed to fetch video info"), NoData, ""))]
  /\ UNCHANGED <<variant, now, cache, timers, nextSweep, gen, crashed, lastStore>>

IndexApiInfo(r) == VideoIdApiInfo("index.js", r)

IndexApiInfoGotInfo(r) == VideoIdApiInfoGotInfo("index.js", r)

IndexApiInfoFallback(r) == VideoIdApiInfoFallback("index.js", r)

Part000ApiInfo(r) == VideoIdApiInfo("part_000b", r)

Part000ApiInfoGotInfo(r) == VideoIdApiInfoGotInfo("part_000b", r)

Part000ApiInfoFallback(r) == VideoIdApiInfoFallback("part_000b", r)

\* setTimeout(() => videoCache.delete(videoId), ...) of request r runs.
ClearTimer(r) ==
  /\ variant \in {"index.js", "part_000b"}
  /\ ~crashed
  /\ timers[r] # NoTimer
  /\ now >= timers[r].due
  /\ cache' = MapDelete(cache, timers[r].key)
  /\ timers' = [timers EXCEPT ![r] = NoTimer]
  /\ UNCHANGED <<variant, now, nextSweep, gen, crashed, reqs, lastStore>>

\* ---- GET /info of part_001 (chain of metadata sources)
\* const methods = [getInfoFromInvidious, getInfoFromYoutubei, getInfoWithYtDlp]
methods == <<"getInfoFromInvidious", "getInfoFromYoutubei", "getInfoWithYtDlp">>

\* const instances = [...] of getInfoFromInvidious
instances == <<"https://vid.puffyan.us", "https://invidious.fdn.fr", "https://yt.artemislena.eu">>

\* The external call that method k makes (for Invidious, to instance j).
SourceOf(k, j) == IF k = 1 THEN instances[j] ELSE methods[k]

\* Variants of NextSource: one leaves Invidious after its first instance,
\* one gives up after the second method.
NextSource_SkipsInstances(q) ==
  IF q.k < Len(methods)
  THEN Await([q EXCEPT !.k = q.k + 1, !.j = 0], SourceOf(q.k + 1, 0), "getVideoInfo")
  ELSE Answer(q, Resp(500, Msg("Failed to get video info"), NoData, ""))

NextSource_GivesUpEarly(q) ==
  IF q.k = 1 /\ q.j < Len(instances)
  THEN Await([q EXCEPT !.j = q.j + 1], SourceOf(1, q.j + 1), "getVideoInfo")
  ELSE IF q.k < Len(methods) - 1
  THEN Await([q EXCEPT !.k = q.k + 1, !.j = 0], SourceOf(q.k + 1, 0), "getVideoInfo")
  ELSE Answer(q, Resp(500, Msg("Failed to get video info"), NoData, ""))

\* The loop of getVideoInfo after method k (instance j) did not return a
\* payload: the next instance, the next method, or the final throw, which
\* the route answers with 500.
NextSource(q) ==
  IF q.k = 1 /\ q.j < Len(instances)
  THEN Await([q EXCEPT !.j = q.j + 1], SourceOf(1, q.j + 1), "getVideoInfo")
  ELSE IF q.k < Len(methods)
  THEN Await([q EXCEPT !.k = q.k + 1, !.j = 0], SourceOf(q.k + 1, 0), "getVideoInfo")
  ELSE Answer(q, Resp(500, Msg("Failed to get video info"), NoData, ""))

Part001Info(r) ==
  /\ variant = "part_001"
  /\ CanArrive(r)
  /\ \E videoId \in InfoIds :
       LET q == [IdleReq EXCEPT !.route = "/info", !.param = videoId]
       IN reqs' = [reqs EXCEPT ![r] =
            IF Falsy(videoId)
            THEN Answer(q, Resp(400, Msg("Missing videoId"), NoData, ""))
            ELSE Await([q EXCEPT !.k = 1, !.j = 1], SourceOf(1, 1), "getVideoInfo")]
  /\ UNCHANGED <<variant, now, cache, timers, nextSweep, gen, crashed, lastStore>>

\* The awaited source settled: a payload is returned and sent; a failure, or
\* a response the mapping code throws on, moves the chain on.
Part001InfoSourceDone(r) ==
  /\ variant = "part_001"
  /\ ~crashed
  /\ reqs[r].route = "/info"
  /\ reqs[r].pc = "getVideoInfo"
  /\ \E out \in Outcomes :
       LET q == Got(reqs[r], out)
       IN reqs' = [reqs EXCEPT ![r] =
            IF out = "ok"
            THEN Answer(q, Resp(200, Json, Meta(Str(q.param), 0, SourceOf(q.k, q.j)), "fresh"))
            ELSE NextSource(q)]
  /\ UNCHANGED <<variant, now, cache, timers, nextSweep, gen, crashed, lastStore>>

\* ---- the hourly sweep of server.js and part_002
\* A variant of SweepExpired that also takes the records of age CACHE_DURATION.
SweepExpired_Inclusive(rec, t, v) == t - rec.timestamp >= CACHE_DURATION(v)

\* now - value.timestamp > CACHE_DURATION
SweepExpired(rec, t, v) == t - rec.timestamp > CACHE_DURATION(v)

Sweep ==
  /\ variant \in {"server.js", "part_002"}
  /\ ~crashed
  /\ now >= nextSweep
  /\ cache' = [key \in {x \in DOMAIN cache : ~SweepExpired(cache[x], now, variant)} |-> cache[key]]
  /\ nextSweep' = nextSweep + SWEEP_INTERVAL
  /\ UNCHANGED <<variant, now, timers, gen, crashed, reqs, lastStore>>

\* ---- the clock, for the variants whose handlers or timers read it
ClockVariants == {"server.js", "index.js", "part_000b", "part_002"}

Tick ==
  /\ variant \in ClockVariants
  /\ now < MaxTime
  /\ \A r \in Reqs : timers[r] = NoTimer \/ now < timers[r].due
  /\ now' = now + 1
  /\ UNCHANGED <<variant, cache, timers, nextSweep, gen, crashed, reqs, lastStore>>

\* ============================================================ downloads
DlUrls == {Undefined, Empty, U_junk, U_bare, U_watch, U_embedB}

DlIds == {Undefined, Empty, <<"aaaaaaaaaaa">>}

\* The type / format query parameter.
Types == {Undefined, <<"mp4">>, <<"mp3">>, <<"avi">>}

\* const { type = 'mp4' } = req.query: the default replaces undefined only.
Default(t, d) == IF t = Undefined THEN d ELSE t

\* req.query.type || 'mp4'
Or(t, d) == IF Falsy(t) THEN d ELSE t

NewReq(route, param, type) ==
  [IdleReq EXCEPT !.route = route, !.param = param, !.type = type]

\* ---- streams piped into the response
\* ytdl(url, ...).pipe(res): the request waits for the stream's events.
Pipe(q) == Await(q, "ytdl", "stream")

\* Whether an 'error' listener is attached to the ytdl stream of the
\* request.  server.js, format mp3: .pipe(res).on('error') listens on res,
\* the return value of pipe, not on the stream.  index.js, part_000: none.
HasErrorListener(v, q) ==
  \/ v = "part_002"
  \/ v = "server.js" /\ Default(q.type, <<"mp4">>) # <<"mp3">>

StreamFailedMsg(v, q) ==
  IF v = "server.js" THEN Msg("Download failed")
  ELSE IF Default(q.type, <<"mp4">>) = <<"mp3">> THEN Msg("Audio download failed")
  ELSE Msg("Video download failed")

\* The first chunk reaches res: status line, headers and body bytes go out.
StreamData(r) ==
  /\ ~crashed
  /\ reqs[r].pc = "stream"
  /\ ~reqs[r].headersSent
  /\ reqs' = [reqs EXCEPT ![r] =
       [@ EXCEPT !.resp = Append(@, Resp(200, Msg("stream"), NoData, "")),
                 !.headersSent = TRUE]]
  /\ UNCHANGED <<variant, now, cache, timers, nextSweep, gen, crashed, lastStore>>

\* The stream ends: pipe ends res, which completes the response.
StreamEnd(r) ==
  /\ ~crashed
  /\ reqs[r].pc = "stream"
  /\ reqs' = [reqs EXCEPT ![r] =
       [@ EXCEPT !.resp = IF reqs[r].headersSent THEN @
                          ELSE Append(@, Resp(200, Msg("stream"), NoData, "")),
                 !.headersSent = TRUE,
                 !.outs = Append(@, "ok"),
                 !.pc = "done"]]
  /\ UNCHANGED <<variant, now, cache, timers, nextSweep, gen, crashed, lastStore>>

\* The stream emits 'error'.  With a listener: 500 unless headers went out,
\* and then nothing (res stays open).  Without one the event is thrown and
\* the process dies.
StreamError(r) ==
  /\ ~crashed
  /\ reqs[r].pc = "stream"
  /\ LET q == Got(reqs[r], "fail")
     IN IF HasErrorListener(variant, q)
        THEN /\ reqs' = [reqs EXCEPT ![r] =
                  IF q.headersSent THEN [q EXCEPT !.pc = "open"]
                  ELSE Answer(q, Resp(500, StreamFailedMsg(variant, q), NoData, ""))]
             /\ UNCHANGED crashed
        ELSE /\ reqs' = [reqs EXCEPT ![r] = [q EXCEPT !.pc = "uncaught"]]
             /\ crashed' = TRUE
  /\ UNCHANGED <<variant, now, cache, timers, nextSweep, gen, lastStore>>

\* ---- GET /api/download of server.js
ServerApiDownload(r) ==
  /\ variant = "server.js"
  /\ CanArrive(r)
  /\ \E url \in DlUrls, format \in Types :
       LET q == NewReq("/api/download", url, format)
       IN reqs' = [reqs EXCEPT ![r] =
            IF Falsy(url) THEN Answer(q, Resp(400, Msg("URL is required"), NoData, ""))
            ELSE IF ~validateURL(url)
            THEN Answer(q, Resp(400, Msg("Invalid YouTube URL"), NoData, ""))
            ELSE Await(q, "ytdl.getInfo", "getInfo")]
  /\ UNCHANGED <<variant, now, cache, timers, nextSweep, gen, crashed, lastStore>>

\* ytdl.getInfo settled.  mp3 with an audio-only format that has a url:
\* redirect to it; otherwise a ytdl stream is piped into res.  A rejection
\* (or a result without videoDetails) lands in the catch block.
ServerApiDownloadGotInfo(r) ==
  /\ variant = "server.js"
  /\ ~crashed
  /\ reqs[r].route = "/api/download"
  /\ reqs[r].pc = "getInfo"
  /\ \E out \in Outcomes, bestAudioUrl \in BOOLEAN :
       LET q == Got(reqs[r], out)
       IN reqs' = [reqs EXCEPT ![r] =
            IF out # "ok" THEN Answer(q, Resp(500, Msg("Download failed"), NoData, ""))
            ELSE IF Default(q.type, <<"mp4">>) = <<"mp3">> /\ bestAudioUrl
            THEN Answer(q, Resp(302, Msg("bestAudio.url"), NoData, ""))
            ELSE Pipe(q)]
  /\ UNCHANGED <<variant, now, cache, timers, nextSweep, gen, crashed, lastStore>>

\* ---- GET /api/download of part_002
Part002ApiDownload(r) ==
  /\ variant = "part_002"
  /\ CanArrive(r)
  /\ \E url \in DlUrls, type \in Types :
       LET q == NewReq("/api/download", url, type)
       IN reqs' = [reqs EXCEPT ![r] =
            IF Falsy(url) THEN Answer(q, Resp(400, Msg("YouTube URL is required"), NoData, ""))
            ELSE IF ~validateURL(url)
            THEN Answer(q, Resp(400, Msg("Invalid YouTube URL"), NoData, ""))
            ELSE IF Default(type, <<"mp4">>) \in {<<"mp3">>, <<"mp4">>} THEN Pipe(q)
            ELSE Answer(q, Resp(400, Msg("Invalid type. Use mp4 or mp3"), NoData, ""))]
  /\ UNCHANGED <<variant, now, cache, timers, nextSweep, gen, crashed, lastStore>>

\* ---- GET /api/stream of server.js and part_002
UrlApiStream(v, r) ==
  /\ variant = v
  /\ CanArrive(r)
  /\ \E url \in DlUrls :
       LET q == NewReq("/api/stream", url, Undefined)
       IN reqs' = [reqs EXCEPT ![r] =
            IF Falsy(url) THEN Answer(q, Resp(400, Msg("URL is required"), NoData, ""))
            ELSE IF ~validateURL(url)
            THEN Answer(q, Resp(400, Msg("Invalid YouTube URL"), NoData, ""))
            ELSE Await(q, "ytdl.getInfo", "getInfo")]
  /\ UNCHANGED <<variant, now, cache, timers, nextSweep, gen, crashed, lastStore>>

\* ytdl.getInfo settled; chooseFormat gives a format with a url, one
\* without, or throws.
UrlApiStreamGotInfo(v, r) ==
  /\ variant = v
  /\ ~crashed
  /\ reqs[r].route = "/api/stream"
  /\ reqs[r].pc = "getInfo"
  /\ \E out \in Outcomes, formatUrl \in BOOLEAN :
       LET q == Got(reqs[r], out)
       IN reqs' = [reqs EXCEPT ![r] =
            IF out # "ok" THEN Answer(q, Resp(500, Msg("Stream failed"), NoData, ""))
            ELSE IF ~formatUrl
            THEN Answer(q, Resp(500, Msg("Could not get stream URL"), NoData, ""))
            ELSE Answer(q, Resp(302, Msg("format.url"), NoData, ""))]
  /\ UNCHANGED <<variant, now, cache, timers, nextSweep, gen, crashed, lastStore>>

ServerApiStream(r) == UrlApiStream("server.js", r)

ServerApiStreamGotInfo(r) == UrlApiStreamGotInfo("server.js", r)

Part002ApiStream(r) == UrlApiStream("part_002", r)

Part002ApiStreamGotInfo(r) == UrlApiStreamGotInfo("part_002", r)

\* ---- GET /api/download/alt of server.js
\* const apis = [...] of getDownloadUrlFromExternalAPI
serverApis == <<"https://yt5s.io/api/ajaxSearch", "https://api.vevioz.com/api/button">>

ServerApiDownloadAlt(r) ==
  /\ variant = "server.js"
  /\ CanArrive(r)
  /\ \E url \in DlUrls, format \in Types :
       LET q == NewReq("/api/download/alt", url, format)
       IN reqs' = [reqs EXCEPT ![r] =
            IF Falsy(url) THEN Answer(q, Resp(400, Msg("URL is required"), NoData, ""))
            ELSE IF extractVideoId(url) = Null
            THEN Answer(q, Resp(400, Msg("Invalid YouTube URL"), NoData, ""))
            ELSE Await([q EXCEPT !.k = 1], serverApis[1], "externalAPI")]
  /\ UNCHANGED <<variant, now, cache, timers, nextSweep, gen, crashed, lastStore>>

\* A variant of ServerApiDownloadAltDone whose loop ends at the first api
\* that fails.
ServerApiDownloadAltDone_StopsAtFailure(r) ==
  /\ variant = "server.js"
  /\ ~crashed
  /\ reqs[r].route = "/api/download/alt"
  /\ reqs[r].pc = "externalAPI"
  /\ \E out \in Outcomes :
       LET q == Got(reqs[r], out)
       IN reqs' = [reqs EXCEPT ![r] =
            IF out = "ok" THEN Answer(q, Resp(302, <<"d_url", serverApis[q.k]>>, NoData, ""))
            ELSE IF q.k < Len(serverApis) /\ out = "malformed"
            THEN Await([q EXCEPT !.k = q.k + 1], serverApis[q.k + 1], "externalAPI")
            ELSE Answer(q, Resp(500, Msg("All download methods failed"), NoData, ""))]
  /\ UNCHANGED <<variant, now, cache, timers, nextSweep, gen, crashed, lastStore>>

\* One axios.post of getDownloadUrlFromExternalAPI settled: a d_url is
\* returned and redirected to; otherwise the loop goes on, and after the
\* last api null is returned and 500 sent.
ServerApiDownloadAltDone(r) ==
  /\ variant = "server.js"
  /\ ~crashed
  /\ reqs[r].route = "/api/download/alt"
  /\ reqs[r].pc = "externalAPI"
  /\ \E out \in Outcomes :
       LET q == Got(reqs[r], out)
       IN reqs' = [reqs EXCEPT ![r] =
            IF out = "ok" THEN Answer(q, Resp(302, <<"d_url", serverApis[q.k]>>, NoData, ""))
            ELSE IF q.k < Len(serverApis)
            THEN Await([q EXCEPT !.k = q.k + 1], serverApis[q.k + 1], "externalAPI")
            ELSE Answer(q, Resp(500, Msg("All download methods failed"), NoData, ""))]
  /\ UNCHANGED <<variant, now, cache, timers, nextSweep, gen, crashed, lastStore>>

\* ---- GET /api/download/alt of part_002
\* extractVideoId(url) runs before any check of url: on a missing url it
\* throws inside the try, and the catch block answers 500.
Part002ApiDownloadAlt(r) ==
  /\ variant = "part_002"
  /\ CanArrive(r)
  /\ \E url \in DlUrls, type \in Types :
       LET q == NewReq("/api/download/alt", url, type)
       IN reqs' = [reqs EXCEPT ![r] =
            IF ExtractThrows(url)
            THEN Answer(q, Resp(500, Msg("Alternative download failed"), NoData, ""))
            ELSE IF extractVideoId(url) = Null
            THEN Answer(q, Resp(400, Msg("Invalid URL"), NoData, ""))
            ELSE Await(q, "https://yt5s.io/api/ajaxSearch", "ajaxSearch")]
  /\ UNCHANGED <<variant, now, cache, timers, nextSweep, gen, crashed, lastStore>>

\* ajaxSearch settled: with a vid (and the links the code indexes) the
\* conversion is requested; without a vid 500 'External service failed';
\* a failure or a TypeError on the links lands in the catch block.
Part002ApiDownloadAltSearched(r) ==
  /\ variant = "part_002"
  /\ ~crashed
  /\ reqs[r].route = "/api/download/alt"
  /\ reqs[r].pc = "ajaxSearch"
  /\ \E out \in Outcomes \cup {"novid"} :
       LET q == Got(reqs[r], out)
       IN reqs' = [reqs EXCEPT ![r] =
            IF out = "fail" THEN Answer(q, Resp(500, Msg("Alternative download failed"), NoData, ""))
            ELSE IF out = "novid" THEN Answer(q, Resp(500, Msg("External service failed"), NoData, ""))
            ELSE IF out = "malformed"
            THEN Answer(q, Resp(500, Msg("Alternative download failed"), NoData, ""))
            ELSE Await(q, "https://yt5s.io/api/ajaxConvert", "ajaxConvert")]
  /\ UNCHANGED <<variant, now, cache, timers, nextSweep, gen, crashed, lastStore>>

Part002ApiDownloadAltConverted(r) ==
  /\ variant = "part_002"
  /\ ~crashed
  /\ reqs[r].route = "/api/download/alt"
  /\ reqs[r].pc = "ajaxConvert"
  /\ \E out \in Outcomes :
       LET q == Got(reqs[r], out)
       IN reqs' = [reqs EXCEPT ![r] =
            IF out = "ok" THEN Answer(q, Resp(302, Msg("d_url"), NoData, ""))
            ELSE IF out = "malformed"
            THEN Answer(q, Resp(500, Msg("External service failed"), NoData, ""))
            ELSE Answer(q, Resp(500, Msg("Alternative download failed"), NoData, ""))]
  /\ UNCHANGED <<variant, now, cache, timers, nextSweep, gen, crashed, lastStore>>

\* ---- GET /download of index.js and part_000b
Y2mate(type, videoId) ==
  IF type = <<"mp4">> THEN <<"https://www.y2mate.com/youtube/", Str(videoId)>>
                      ELSE <<"https://www.y2mate.com/youtube-mp3/", Str(videoId)>>

VideoIdDownload(v, r) ==
  /\ variant = v
  /\ CanArrive(r)
  /\ \E videoId \in DlIds, type \in Types :
       LET q == NewReq("/download", videoId, type)
       IN reqs' = [reqs EXCEPT ![r] =
            IF Falsy(videoId) THEN Answer(q, Resp(400, Msg("Video ID is required"), NoData, ""))
            ELSE Await(q, "ytdl.getInfo", "getInfo")]
  /\ UNCHANGED <<variant, now, cache, timers, nextSweep, gen, crashed, lastStore>>

\* ytdl.getInfo settled: a stream piped into res for mp4 and mp3, 400 for
\* another type; the catch block redirects to y2mate.
VideoIdDownloadGotInfo(v, r) ==
  /\ variant = v
  /\ ~crashed
  /\ reqs[r].route = "/download"
  /\ reqs[r].pc = "getInfo"
  /\ \E out \in Outcomes :
       LET q == Got(reqs[r], out)
       IN reqs' = [reqs EXCEPT ![r] =
            IF out # "ok"
            THEN Answer(q, Resp(302, Y2mate(Or(q.type, <<"mp4">>), q.param), NoData, ""))
            ELSE IF Default(q.type, <<"mp4">>) \in {<<"mp4">>, <<"mp3">>} THEN Pipe(q)
            ELSE Answer(q, Resp(400, Msg("Invalid type. Use 'mp4' or 'mp3'"), NoData, ""))]
  /\ UNCHANGED <<variant, now, cache, timers, nextSweep, gen, crashed, lastStore>>

IndexDownload(r) == VideoIdDownload("index.js", r)

IndexDownloadGotInfo(r) == VideoIdDownloadGotInfo("index.js", r)

Part000Download(r) == VideoIdDownload("part_000b", r)

Part000DownloadGotInfo(r) == VideoIdDownloadGotInfo("part_000b", r)

\* ---- GET /download of part_000a
Part000aDownload(r) ==
  /\ variant = "part_000a"
  /\ CanArrive(r)
  /\ \E videoId \in DlIds, type \in Types :
       LET q == NewReq("/download", videoId, type)
       IN reqs' = [reqs EXCEPT ![r] =
            IF Falsy(videoId) THEN Answer(q, Resp(400, Msg("No Video ID"), NoData, ""))
            ELSE Await(q, "ytdl.getInfo", "getInfo")]
  /\ UNCHANGED <<variant, now, cache, timers, nextSweep, gen, crashed, lastStore>>

Part000aDownloadGotInfo(r) ==
  /\ variant = "part_000a"
  /\ ~crashed
  /\ reqs[r].route = "/download"
  /\ reqs[r].pc = "getInfo"
  /\ \E out \in Outcomes :
       LET q == Got(reqs[r], out)
       IN reqs' = [reqs EXCEPT ![r] =
            IF out # "ok" THEN Answer(q, Resp(500, Msg("Extraction Failed"), NoData, ""))
            ELSE Pipe(q)]
  /\ UNCHANGED <<variant, now, cache, timers, nextSweep, gen, crashed, lastStore>>

\* ---- GET /direct of index.js and part_000b
FallbackService(type, videoId) ==
  IF type = <<"mp3">> THEN <<"https://yt5s.com/en?q=https://youtube.com/watch?v=", Str(videoId)>>
                      ELSE <<"https://ssyoutube.com/watch?v=", Str(videoId)>>

VideoIdDirect(v, r) ==
  /\ variant = v
  /\ CanArrive(r)
  /\ \E videoId \in DlIds, type \in Types :
       LET q == NewReq("/direct", videoId, type)
       IN reqs' = [reqs EXCEPT ![r] =
            IF Falsy(videoId) THEN Answer(q, Resp(400, Msg("Video ID required"), NoData, ""))
            ELSE Await(q, "ytdl.getInfo", "getInfo")]
  /\ UNCHANGED <<variant, now, cache, timers, nextSweep, gen, crashed, lastStore>>

\* index.js: the catch block sends 500 and then arms a one-second timer
\* whose callback redirects if no headers were sent.
IndexDirectGotInfo(r) ==
  /\ variant = "index.js"
  /\ ~crashed
  /\ reqs[r].route = "/direct"
  /\ reqs[r].pc = "getInfo"
  /\ \E out \in Outcomes :
       LET q == Got(reqs[r], out)
       IN reqs' = [reqs EXCEPT ![r] =
            IF out # "ok"
            THEN [Answer(q, Resp(500, Msg("Failed to process video. Trying alternative..."), NoData, ""))
                    EXCEPT !.pc = "retryTimer"]
            ELSE Pipe(q)]
  /\ UNCHANGED <<variant, now, cache, timers, nextSweep, gen, crashed, lastStore>>

IndexDirectRetry(r) ==
  /\ variant = "index.js"
  /\ ~crashed
  /\ reqs[r].route = "/direct"
  /\ reqs[r].pc = "retryTimer"
  /\ reqs' = [reqs EXCEPT ![r] =
       IF ~reqs[r].headersSent
       THEN Answer(reqs[r], Resp(302, FallbackService(reqs[r].type, reqs[r].param), NoData, ""))
       ELSE [reqs[r] EXCEPT !.pc = "done"]]
  /\ UNCHANGED <<variant, now, cache, timers, nextSweep, gen, crashed, lastStore>>

\* part_000b: the catch block redirects at once.
Part000DirectGotInfo(r) ==
  /\ variant = "part_000b"
  /\ ~crashed
  /\ reqs[r].route = "/direct"
  /\ reqs[r].pc = "getInfo"
  /\ \E out \in Outcomes :
       LET q == Got(reqs[r], out)
       IN reqs' = [reqs EXCEPT ![r] =
            IF out # "ok"
            THEN Answer(q, Resp(302, FallbackService(q.type, q.param), NoData, ""))
            ELSE Pipe(q)]
  /\ UNCHANGED <<variant, now, cache, timers, nextSweep, gen, crashed, lastStore>>

IndexDirect(r) == VideoIdDirect("index.js", r)

Part000Direct(r) == VideoIdDirect("part_000b", r)

\* ---- GET /alternatives of part_000b
Part000Alternatives(r) ==
  /\ variant = "part_000b"
  /\ CanArrive(r)
  /\ \E videoId \in DlIds :
       LET q == NewReq("/alternatives", videoId, Undefined)
       IN reqs' = [reqs EXCEPT ![r] =
            IF Falsy(videoId) THEN Answer(q, Resp(400, Msg("Video ID required"), NoData, ""))
            ELSE Answer(q, Resp(200, Json, Meta(Str(videoId), 0, "alternatives"), ""))]
  /\ UNCHANGED <<variant, now, cache, timers, nextSweep, gen, crashed, lastStore>>

\* ---- GET /download of part_001 (yt-dlp, then external conversion APIs)
\* const apis = [...] of downloadWithAlternativeMethod
part001Apis == <<"https://api.vevioz.com/api/button", "https://yt5s.io/api/ajaxSearch",
                 "https://loader.to/ajax/download.php">>

\* The catch block of the route: downloadWithAlternativeMethod starts.
AlternativeMethod(q) == Await([q EXCEPT !.k = 1], part001Apis[1], "altAPI")

Part001Download(r) ==
  /\ variant = "part_001"
  /\ CanArrive(r)
  /\ \E videoId \in DlIds, type \in Types :
       LET q == NewReq("/download", videoId, type)
       IN reqs' = [reqs EXCEPT ![r] =
            IF Falsy(videoId) THEN Answer(q, Resp(400, Msg("Missing videoId"), NoData, ""))
            ELSE IF Default(type, <<"mp4">>) \in {<<"mp4">>, <<"mp3">>}
            THEN Await(q, "yt-dlp", "ytDlp")
            ELSE Answer(q, Resp(400, Msg("Invalid type. Use mp4 or mp3"), NoData, ""))]
  /\ UNCHANGED <<variant, now, cache, timers, nextSweep, gen, crashed, lastStore>>

\* yt-dlp closed: exit 0 with the output file (ok) pipes the file into res;
\* exit 0 without the file, or another exit code, rejects.
Part001DownloadExit(r) ==
  /\ variant = "part_001"
  /\ ~crashed
  /\ reqs[r].route = "/download"
  /\ reqs[r].pc = "ytDlp"
  /\ \E out \in Outcomes :
       LET q == Got(reqs[r], out)
       IN reqs' = [reqs EXCEPT ![r] =
            IF out = "ok" THEN Await(q, "fs.createReadStream", "fileStream")
            ELSE AlternativeMethod(q)]
  /\ UNCHANGED <<variant, now, cache, timers, nextSweep, gen, crashed, lastStore>>

Part001FileData(r) ==
  /\ variant = "part_001"
  /\ ~crashed
  /\ reqs[r].pc = "fileStream"
  /\ ~reqs[r].headersSent
  /\ reqs' = [reqs EXCEPT ![r] =
       [@ EXCEPT !.resp = Append(@, Resp(200, Msg("stream"), NoData, "")),
                 !.headersSent = TRUE]]
  /\ UNCHANGED <<variant, now, cache, timers, nextSweep, gen, crashed, lastStore>>

\* 'end': the file is unlinked, the promise resolves, pipe ends res.
Part001FileEnd(r) ==
  /\ variant = "part_001"
  /\ ~crashed
  /\ reqs[r].pc = "fileStream"
  /\ reqs' = [reqs EXCEPT ![r] =
       [@ EXCEPT !.resp = IF reqs[r].headersSent THEN @
                          ELSE Append(@, Resp(200, Msg("stream"), NoData, "")),
                 !.headersSent = TRUE,
                 !.outs = Append(@, "ok"),
                 !.pc = "done"]]
  /\ UNCHANGED <<variant, now, cache, timers, nextSweep, gen, crashed, lastStore>>

\* 'error': the promise rejects and the route's catch block runs, whatever
\* has been sent.
Part001FileError(r) ==
  /\ variant = "part_001"
  /\ ~crashed
  /\ reqs[r].pc = "fileStream"
  /\ reqs' = [reqs EXCEPT ![r] = AlternativeMethod(Got(reqs[r], "fail"))]
  /\ UNCHANGED <<variant, now, cache, timers, nextSweep, gen, crashed, lastStore>>

\* A variant of NextApi that posts to a failed api once more.
NextApi_Retries(q, dies) ==
  IF Len(q.calls) < 3 \/ q.k < Len(part001Apis)
  THEN Await([q EXCEPT !.k = IF Len(q.calls) < 3 THEN q.k ELSE q.k + 1],
             part001Apis[IF Len(q.calls) < 3 THEN q.k ELSE q.k + 1], "altAPI")
  ELSE Answer(q, Resp(500, Msg("Download failed. YouTube may have blocked this video."),
                      NoData, ""))

\* The loop of downloadWithAlternativeMethod after api k gave no redirect.
\* After the last api it throws and the route sends 500; with headers
\* already sent that send throws out of the async handler, an unhandled
\* rejection, on which the process dies or not by the runtime's mode.
NextApi(q, dies) ==
  IF q.k < Len(part001Apis)
  THEN Await([q EXCEPT !.k = q.k + 1], part001Apis[q.k + 1], "altAPI")
  ELSE LET a == Answer(q, Resp(500, Msg("Download failed. YouTube may have blocked this video."),
                               NoData, ""))
       IN IF q.headersSent /\ dies THEN [a EXCEPT !.pc = "uncaught"] ELSE a

\* One axios.post settled.  A downloadUrl is redirected to; res.redirect
\* with headers already sent throws inside the try and the loop continues.
Part001AltDone(r) ==
  /\ variant = "part_001"
  /\ ~crashed
  /\ reqs[r].route = "/download"
  /\ reqs[r].pc = "altAPI"
  /\ \E out \in Outcomes, dies \in BOOLEAN :
       LET q == Got(reqs[r], out)
           redirect == Resp(302, <<"downloadUrl", part001Apis[q.k]>>, NoData, "")
           next == IF out # "ok" THEN NextApi(q, dies)
                   ELSE IF ~q.headersSent THEN Answer(q, redirect)
                   ELSE NextApi([q EXCEPT !.resp = Append(@, redirect)], dies)
       IN /\ reqs' = [reqs EXCEPT ![r] = next]
          /\ crashed' = (next.pc = "uncaught")
  /\ UNCHANGED <<variant, now, cache, timers, nextSweep, gen, lastStore>>

\* ------------------------------------------------- metadata specification
MetadataVariants == {"server.js", "index.js", "part_000b", "part_001", "part_002"}

InitInfo == Init /\ variant \in MetadataVariants

NextInfo ==
  \/ \E r \in Reqs : ServerApiInfo(r)
  \/ \E r \in Reqs : ServerApiInfoGotInfo(r)
  \/ \E r \in Reqs : ServerApiInfoFallback(r)
  \/ \E r \in Reqs : Part002ApiInfo(r)
  \/ \E r \in Reqs : Part002ApiInfoGotInfo(r)
  \/ \E r \in Reqs : Part002ApiInfoFallback(r)
  \/ \E r \in Reqs : IndexApiInfo(r)
  \/ \E r \in Reqs : IndexApiInfoGotInfo(r)
  \/ \E r \in Reqs : IndexApiInfoFallback(r)
  \/ \E r \in Reqs : Part000ApiInfo(r)
  \/ \E r \in Reqs : Part000ApiInfoGotInfo(r)
  \/ \E r \in Reqs : Part000ApiInfoFallback(r)
  \/ \E r \in Reqs : ClearTimer(r)
  \/ \E r \in Reqs : Part001Info(r)
  \/ \E r \in Reqs : Part001InfoSourceDone(r)
  \/ Sweep
  \/ Tick

SpecInfo == InitInfo /\ [][NextInfo]_vars

\* Every awaited call of a metadata request settles: the promise that the
\* handler awaits is resolved or rejected, and the handler resumes.
ExternalCallsSettle ==
  \A r \in Reqs :
    /\ WF_vars(ServerApiInfoGotInfo(r))
    /\ WF_vars(ServerApiInfoFallback(r))
    /\ WF_vars(Part002ApiInfoGotInfo(r))
    /\ WF_vars(Part002ApiInfoFallback(r))
    /\ WF_vars(IndexApiInfoGotInfo(r))
    /\ WF_vars(IndexApiInfoFallback(r))
    /\ WF_vars(Part000ApiInfoGotInfo(r))
    /\ WF_vars(Part000ApiInfoFallback(r))
    /\ WF_vars(Part001InfoSourceDone(r))

FairSpecInfo == InitInfo /\ [][NextInfo]_vars /\ ExternalCallsSettle

\* ------------------------------------------------- download specification
NextDownload ==
  \/ \E r \in Reqs : ServerApiDownload(r)
  \/ \E r \in Reqs : ServerApiDownloadGotInfo(r)
  \/ \E r \in Reqs : Part002ApiDownload(r)
  \/ \E r \in Reqs : ServerApiStream(r)
  \/ \E r \in Reqs : ServerApiStreamGotInfo(r)
  \/ \E r \in Reqs : Part002ApiStream(r)
  \/ \E r \in Reqs : Part002ApiStreamGotInfo(r)
  \/ \E r \in Reqs : ServerApiDownloadAlt(r)
  \/ \E r \in Reqs : ServerApiDownloadAltDone(r)
  \/ \E r \in Reqs : Part002ApiDownloadAlt(r)
  \/ \E r \in Reqs : Part002ApiDownloadAltSearched(r)
  \/ \E r \in Reqs : Part002ApiDownloadAltConverted(r)
  \/ \E r \in Reqs : IndexDownload(r)
  \/ \E r \in Reqs : IndexDownloadGotInfo(r)
  \/ \E r \in Reqs : Part000Download(r)
  \/ \E r \in Reqs : Part000DownloadGotInfo(r)
  \/ \E r \in Reqs : Part000aDownload(r)
  \/ \E r \in Reqs : Part000aDownloadGotInfo(r)
  \/ \E r \in Reqs : IndexDirect(r)
  \/ \E r \in Reqs : IndexDirectGotInfo(r)
  \/ \E r \in Reqs : IndexDirectRetry(r)
  \/ \E r \in Reqs : Part000Direct(r)
  \/ \E r \in Reqs : Part000DirectGotInfo(r)
  \/ \E r \in Reqs : Part000Alternatives(r)
  \/ \E r \in Reqs : Part001Download(r)
  \/ \E r \in Reqs : Part001DownloadExit(r)
  \/ \E r \in Reqs : Part001FileData(r)
  \/ \E r \in Reqs : Part001FileEnd(r)
  \/ \E r \in Reqs : Part001FileError(r)
  \/ \E r \in Reqs : Part001AltDone(r)
  \/ \E r \in Reqs : StreamData(r)
  \/ \E r \in Reqs : StreamEnd(r)
  \/ \E r \in Reqs : StreamError(r)

SpecDownload == Init /\ [][NextDownload]_vars

\* Every ytdl stream piped into a response eventually emits 'end' or
\* 'error', and the ytdl.getInfo awaited by GET /api/download settles.
StreamsSettle ==
  \A r \in Reqs :
    /\ WF_vars(StreamEnd(r) \/ StreamError(r))
    /\ WF_vars(ServerApiDownloadGotInfo(r))

FairSpecDownload == Init /\ [][NextDownload]_vars /\ StreamsSettle

\* ------------------------------------------------------ all the routes
Next == NextInfo \/ NextDownload

Spec == Init /\ [][Next]_vars

\* ==================================================================
\* Properties
\* ==================================================================
\* Request r arrives in this step.
Arrives(r) == reqs[r].pc = "idle" /\ reqs'[r].pc # "idle"

\* Request r arrives at /api/info of a Map-cache variant with a URL that
\* passes validation, hence with a cache key.
ArrivesWithKey(r) ==
  /\ variant \in {"server.js", "part_002"}
  /\ Arrives(r)
  /\ reqs'[r].route = "/api/info"
  /\ ~Falsy(reqs'[r].param)
  /\ validateURL(reqs'[r].param)

KeyOf(q) == CacheKey(variant, q.param)

IsPrefix(a, b) == Len(a) <= Len(b) /\ \A i \in 1..Len(a) : a[i] = b[i]

\* ---- C1
\* C1: in every variant, a request to a route that takes a video identifier
\* or URL and does not carry that parameter is answered with status 400.
C1_MissingIdentifierIs400 ==
  \A r \in Reqs :
    (reqs[r].pc # "idle" /\ reqs[r].param = Undefined)
      => (Len(reqs[r].resp) >= 1 /\ reqs[r].resp[1].status = 400)

\* ---- C2
\* C2: server.js, part_002: an /api/info request that arrives while the
\* latest record stored under its key is younger than CACHE_DURATION is
\* answered with exactly that record's data, marked cached, and makes no
\* ytdl.getInfo call.
C2_FreshRecordIsServed ==
  [][\A r \in Reqs :
      (/\ ArrivesWithKey(r)
       /\ KeyOf(reqs'[r]) \in DOMAIN lastStore
       /\ now - lastStore[KeyOf(reqs'[r])].timestamp < CACHE_DURATION(variant))
      => (/\ reqs'[r].resp = <<Resp(200, Json, lastStore[KeyOf(reqs'[r])].data, "cached")>>
          /\ reqs'[r].calls = <<>>
          /\ reqs'[r].pc = "done")]_vars

\* A hit strictly after the instant of the store, inside the window.
C2_Witness ==
  \E r \in Reqs :
    /\ variant \in {"server.js", "part_002"}
    /\ reqs[r].found = "hit"
    /\ KeyOf(reqs[r]) \in DOMAIN lastStore
    /\ reqs[r].resp[1].data = lastStore[KeyOf(reqs[r])].data
    /\ now > lastStore[KeyOf(reqs[r])].timestamp
    /\ now - lastStore[KeyOf(reqs[r])].timestamp < CACHE_DURATION(variant)

\* ---- C3
\* C3: server.js, part_002: an /api/info request is answered from the cache
\* only with a record younger than CACHE_DURATION; a request that arrives
\* when the latest record stored under its key has age >= CACHE_DURATION
\* calls ytdl.getInfo and sends nothing from the cache, whether the record
\* is still in the Map or the sweep has removed it.
C3_StaleRecordIsNotServed ==
  [][\A r \in Reqs :
      /\ (/\ ArrivesWithKey(r)
          /\ KeyOf(reqs'[r]) \in DOMAIN lastStore
          /\ now - lastStore[KeyOf(reqs'[r])].timestamp >= CACHE_DURATION(variant))
         => (reqs'[r].calls = <<"ytdl.getInfo">> /\ reqs'[r].resp = <<>>)
      /\ (/\ ArrivesWithKey(r)
          /\ reqs'[r].resp # <<>>
          /\ reqs'[r].resp[1].tag = "cached")
         => (/\ KeyOf(reqs'[r]) \in DOMAIN cache
             /\ now - cache[KeyOf(reqs'[r])].timestamp < CACHE_DURATION(variant)
             /\ reqs'[r].resp[1].data = cache[KeyOf(reqs'[r])].data)]_vars

\* A request that met a record of age >= CACHE_DURATION still in the Map
\* and is waiting for ytdl.getInfo.
C3_Witness ==
  \E r \in Reqs :
    /\ variant \in {"server.js", "part_002"}
    /\ reqs[r].found = "stale"
    /\ reqs[r].pc = "getInfo"
    /\ reqs[r].calls = <<"ytdl.getInfo">>

\* ---- C4
\* C4: index.js, part_000b: an /api/info request for a videoId whose record
\* is in videoCache when it arrives is answered from the cache without a
\* ytdl.getInfo call.
C4_PresentRecordIsServed ==
  [][\A r \in Reqs :
      (/\ variant \in {"index.js", "part_000b"}
       /\ Arrives(r)
       /\ reqs'[r].route = "/api/info"
       /\ reqs'[r].param \in DOMAIN cache)
      => (reqs'[r].calls = <<>> /\ reqs'[r].resp # <<>>)]_vars

\* ---- C5
\* The metadata sources of part_001 in the order the claim gives.
C5_Chain ==
  <<"https://vid.puffyan.us", "https://invidious.fdn.fr", "https://yt.artemislena.eu",
    "getInfoFromYoutubei", "getInfoWithYtDlp">>

\* C5: part_001 getVideoInfo: the calls of a request are an initial part of
\* the chain Invidious (three instances in listed order), youtubei, yt-dlp;
\* every call before the latest one failed, and after a call succeeded the
\* request is finished and calls nothing more.
C5_SourcesInOrder ==
  \A r \in Reqs :
    (variant = "part_001" /\ reqs[r].route = "/info")
      => (/\ IsPrefix(reqs[r].calls, C5_Chain)
          /\ Len(reqs[r].outs) <= Len(reqs[r].calls)
          /\ Len(reqs[r].calls) <= Len(reqs[r].outs) + 1
          /\ \A i \in 1..Len(reqs[r].outs) :
               IF reqs[r].outs[i] = "ok"
               THEN i = Len(reqs[r].calls) /\ reqs[r].pc = "done"
               ELSE i < Len(reqs[r].calls) \/ reqs[r].pc = "done")

\* The whole chain was walked and its last source succeeded.
C5_Witness ==
  \E r \in Reqs :
    /\ variant = "part_001"
    /\ reqs[r].route = "/info"
    /\ reqs[r].calls = C5_Chain
    /\ reqs[r].outs = <<"failed", "failed", "failed", "failed", "ok">>

\* ---- C6
\* C6: part_001 GET /info with a videoId: the answer is 500 'Failed to get
\* video info' exactly when all three methods failed (every Invidious
\* instance, youtubei and yt-dlp); otherwise it is the payload of the first
\* source of the chain that succeeded.
C6_FailureIffAllSourcesFail ==
  \A r \in Reqs :
    (/\ variant = "part_001"
     /\ reqs[r].route = "/info"
     /\ reqs[r].pc = "done"
     /\ ~Falsy(reqs[r].param))
      => LET o == reqs[r].outs
             allFailed == Len(o) = Len(C5_Chain) /\ \A i \in 1..Len(o) : o[i] = "failed"
             oks == {i \in 1..Len(o) : o[i] = "ok"}
         IN /\ Len(reqs[r].resp) = 1
            /\ (reqs[r].resp[1] = Resp(500, Msg("Failed to get video info"), NoData, ""))
                 <=> allFailed
            /\ oks # {} =>
                 LET first == CHOOSE i \in oks : \A j \in oks : i <= j
                 IN reqs[r].resp[1] =
                      Resp(200, Json, Meta(Str(reqs[r].param), 0, C5_Chain[first]), "fresh")

\* All five calls failed and 500 was sent.
\* (witness of C6)
C6_Witness ==
  \E r \in Reqs :
    /\ variant = "part_001"
    /\ reqs[r].route = "/info"
    /\ reqs[r].pc = "done"
    /\ reqs[r].outs = <<"failed", "failed", "failed", "failed", "failed">>
    /\ reqs[r].resp[1].status = 500

\* ---- C7
\* Request r is a metadata request with a well-formed identifier.
C7_WellFormed(r) ==
  /\ reqs[r].route \in {"/info", "/api/info"}
  /\ ~Falsy(reqs[r].param)
  /\ variant \in {"server.js", "part_002"} => validateURL(reqs[r].param)

\* Request r has its one response: a success or fallback payload, or 500.
C7_Answered(r) ==
  /\ reqs[r].pc = "done"
  /\ Len(reqs[r].resp) = 1
  /\ \/ reqs[r].resp[1].status = 200 /\ reqs[r].resp[1].tag \in {"fresh", "cached", "fallback"}
     \/ reqs[r].resp[1].status = 500

C8_ExtractionCalls == {"ytdl.getInfo", "yt-dlp", "ytdl"}

\* The extraction failed for request r before any response byte was sent,
\* and the handler has finished dealing with the failure.
C8_FailedBeforeBytes(r) ==
  /\ reqs[r].route \in {"/download", "/direct", "/api/download"}
  /\ reqs[r].pc \in {"done", "uncaught", "open", "retryTimer"}
  /\ \E i \in 1..Len(reqs[r].outs) :
       reqs[r].outs[i] = "failed" /\ reqs[r].calls[i] \in C8_ExtractionCalls
  /\ reqs[r].resp = <<>> \/ reqs[r].resp[1].status # 200

\* C8: in the download routes of every variant, a request whose extraction
\* fails, at the metadata call or by an 'error' of the media stream before
\* any response byte, is answered with status 500 or with a redirect.
C8_FailedDownloadIsAnswered ==
  \A r \in Reqs :
    C8_FailedBeforeBytes(r)
      => (reqs[r].resp # <<>> /\ reqs[r].resp[1].status \in {500, 302})

\* ---- C9
\* C9: within one request no data source is called twice: the calls of a
\* request are pairwise different, so a source that failed is not retried.
C9_EachSourceAtMostOnce ==
  \A r \in Reqs :
    \A i, j \in 1..Len(reqs[r].calls) :
      i # j => reqs[r].calls[i] # reqs[r].calls[j]

\* A request went through a whole fallback chain, every source failing.
C9_Witness ==
  \E r \in Reqs :
    /\ variant = "part_001"
    /\ reqs[r].route = "/download"
    /\ reqs[r].calls = <<"yt-dlp">> \o part001Apis
    /\ reqs[r].outs = <<"failed", "failed", "failed", "failed">>
    /\ reqs[r].pc = "done"

\* ---- C10
\* C10: server.js, part_002: a run of the hourly sweep removes exactly the
\* records of age greater than CACHE_DURATION; every record of age at most
\* CACHE_DURATION stays, with its data and timestamp unchanged.
C10_SweepRemovesExactlyTheExpired ==
  [][nextSweep' # nextSweep =>
      /\ DOMAIN cache' =
           {key \in DOMAIN cache : now - cache[key].timestamp <= CACHE_DURATION(variant)}
      /\ \A key \in DOMAIN cache' : cache'[key] = cache[key]]_vars

\* The sweep has run, it removed a record, and a record stored before the
\* sweep was first due has survived it.
C10_Witness ==
  /\ nextSweep > SWEEP_INTERVAL
  /\ \E key \in DOMAIN lastStore : key \notin DOMAIN cache
  /\ \E key \in DOMAIN cache : cache[key].timestamp < SWEEP_INTERVAL

\* ---- C11
\* Request r went to a download route that validates type, with an
\* identifier and a type that is neither 'mp4' nor 'mp3', and the handler
\* has finished.
C11_InvalidTypeHandled(r) ==
  /\ variant \in {"index.js", "part_000b", "part_001", "part_002"}
  /\ reqs[r].route \in {"/download", "/api/download"}
  /\ ~Falsy(reqs[r].param)
  /\ Default(reqs[r].type, <<"mp4">>) \notin {<<"mp4">>, <<"mp3">>}
  /\ reqs[r].pc = "done"

\* C11: index.js, part_000 (second server), part_001, part_002: a download
\* request with an identifier and a type other than 'mp4' and 'mp3' is
\* answered with status 400, whatever the extraction call does.
C11_InvalidTypeIs400 ==
  \A r \in Reqs :
    C11_InvalidTypeHandled(r)
      => (Len(reqs[r].resp) = 1 /\ reqs[r].resp[1].status = 400)

\* ---- C12
\* C12: index.js GET /direct: a request with a videoId whose ytdl.getInfo
\* failed is, once its handler and timer callback have run, redirected to
\* the fallback service: yt5s.com for type 'mp3', ssyoutube.com otherwise.
C12_DirectFailureRedirects ==
  \A r \in Reqs :
    (/\ variant = "index.js"
     /\ reqs[r].route = "/direct"
     /\ ~Falsy(reqs[r].param)
     /\ reqs[r].outs = <<"failed">>
     /\ reqs[r].pc = "done")
      => \E i \in 1..Len(reqs[r].resp) :
           /\ reqs[r].resp[i].status = 302
           /\ reqs[r].resp[i].body = FallbackService(reqs[r].type, reqs[r].param)

\* ---- C13
\* C13: index.js, part_000 (second server): the record that the latest
\* successful /api/info request stored under a videoId is present, with
\* that request's data, throughout the expiry window after the store, and is
\* absent once the window has ended.
C13_RecordLivesItsWindow ==
  variant \in {"index.js", "part_000b"} =>
    \A key \in DOMAIN lastStore :
      /\ now < lastStore[key].timestamp + CLEAR_DELAY(variant)
           => (key \in DOMAIN cache /\ cache[key].data = lastStore[key].data)
      /\ now > lastStore[key].timestamp + CLEAR_DELAY(variant)
           => key \notin DOMAIN cache

\* ---- C14
\* Request r is an answered /api/info request of a Map-cache variant.
C14_AnsweredInfo(r) ==
  /\ variant \in {"server.js", "part_002"}
  /\ reqs[r].route = "/api/info"
  /\ reqs[r].pc = "done"
  /\ Len(reqs[r].resp) = 1

\* C14: server.js, part_002: an /api/info request whose ytdl.getInfo failed
\* and whose URL yields a video id is answered 200 with the fallback payload
\* for that id, whether the noembed call succeeded or not; 500 is answered
\* only when ytdl.getInfo failed and no id can be extracted from the URL.
C14_FallbackUnlessNoId ==
  \A r \in Reqs :
    C14_AnsweredInfo(r) =>
      /\ (Len(reqs[r].outs) >= 1 /\ reqs[r].outs[1] = "failed"
            /\ extractVideoId(reqs[r].param) # Null)
           => /\ reqs[r].resp[1].status = 200
              /\ reqs[r].resp[1].tag = "fallback"
              /\ reqs[r].resp[1].data.id = extractVideoId(reqs[r].param)
              /\ reqs[r].calls = <<"ytdl.getInfo", "noembed">>
      /\ reqs[r].resp[1].status = 500
           => /\ reqs[r].outs = <<"failed">>
              /\ extractVideoId(reqs[r].param) = Null

\* ytdl.getInfo and noembed both failed, and the request was answered 200
\* with the fallback payload.
C14_Witness ==
  \E r \in Reqs :
    /\ C14_AnsweredInfo(r)
    /\ reqs[r].outs = <<"failed", "failed">>
    /\ reqs[r].resp[1].status = 200
    /\ reqs[r].resp[1].tag = "fallback"

\* ---- C15
\* C15: index.js, part_000 (second server): an /api/info request with a
\* videoId is answered 500 'Failed to fetch video info' exactly when
\* ytdl.getInfo and the noembed fallback both failed, and noembed is called
\* only as the second call, after ytdl.getInfo failed.
C15_FailureIffBothFail ==
  \A r \in Reqs :
    (/\ variant \in {"index.js", "part_000b"}
     /\ reqs[r].route = "/api/info"
     /\ ~Falsy(reqs[r].param))
      => /\ \A i \in 1..Len(reqs[r].calls) :
              reqs[r].calls[i] = "noembed"
                => (i = 2 /\ reqs[r].calls[1] = "ytdl.getInfo" /\ reqs[r].outs[1] = "failed")
         /\ reqs[r].pc = "done"
              => /\ Len(reqs[r].resp) = 1
                 /\ (reqs[r].resp[1].status = 500) <=> (reqs[r].outs = <<"failed", "failed">>)
                 /\ reqs[r].resp[1].status = 500
                      => reqs[r].resp[1].body = Msg("Failed to fetch video info")

\* Both calls failed and the request was answered 500.
C15_Witness ==
  \E r \in Reqs :
    /\ variant \in {"index.js", "part_000b"}
    /\ reqs[r].route = "/api/info"
    /\ reqs[r].pc = "done"
    /\ reqs[r].calls = <<"ytdl.getInfo", "noembed">>
    /\ reqs[r].outs = <<"failed", "failed">>
    /\ reqs[r].resp[1].status = 500

\* ---- C16
\* The extraction of /api/info request r succeeds in this step: the request
\* is answered with fresh data.
C16_ExtractionSucceeds(r) ==
  /\ variant \in {"server.js", "part_002"}
  /\ reqs[r].route = "/api/info"
  /\ reqs[r].pc = "getInfo"
  /\ reqs'[r].pc = "done"
  /\ reqs'[r].resp[1].tag = "fresh"

\* C16: server.js, part_002: the step in which the extraction of an
\* /api/info request succeeds leaves, under that request's key, exactly the
\* data of its response (cached: false) with the time of the store as
\* timestamp, whatever record was there before, and changes no other key;
\* so the record under a key is that of the store that ran last.
C16_StoreIsTheResponse ==
  [][\A r \in Reqs :
       C16_ExtractionSucceeds(r) =>
         /\ DOMAIN cache' = DOMAIN cache \cup {KeyOf(reqs[r])}
         /\ cache'[KeyOf(reqs[r])] =
              [data |-> reqs'[r].resp[1].data, timestamp |-> now]
         /\ \A key \in DOMAIN cache :
              key # KeyOf(reqs[r]) => cache'[key] = cache[key]]_vars

\* Two requests on one key were both in flight; the one that arrived first
\* stored last, and its data is the record.
C16_Witness ==
  /\ variant \in {"server.js", "part_002"}
  /\ reqs[1].pc = "done" /\ reqs[2].pc = "done"
  /\ reqs[1].route = "/api/info" /\ reqs[2].route = "/api/info"
  /\ Len(reqs[1].resp) = 1 /\ Len(reqs[2].resp) = 1
  /\ reqs[1].resp[1].tag = "fresh" /\ reqs[2].resp[1].tag = "fresh"
  /\ KeyOf(reqs[1]) = KeyOf(reqs[2])
  /\ reqs[1].resp[1].data.gen > reqs[2].resp[1].data.gen
  /\ KeyOf(reqs[1]) \in DOMAIN cache
  /\ cache[KeyOf(reqs[1])].data = reqs[1].resp[1].data

\* ---- C17
C17_IsApi(call) == \E i \in 1..Len(part001Apis) : call = part001Apis[i]

\* C17: part_001 GET /download: a conversion API is posted to only after the
\* call before it (the yt-dlp download, or the API listed before it) has
\* failed or returned no downloadUrl; the APIs are taken in listed order;
\* a finished request that reached the APIs has one response: the redirect
\* to the downloadUrl of the first API that returned one, or 500 when all
\* three returned none.
C17_AlternativeChain ==
  \A r \in Reqs :
    (variant = "part_001" /\ reqs[r].route = "/download") =>
      LET q == reqs[r]
          n == Len(q.calls)
      IN /\ \A i \in 1..n :
              C17_IsApi(q.calls[i]) => (i > 1 /\ q.outs[i - 1] = "failed")
         /\ IsPrefix(SelectSeq(q.calls, C17_IsApi), part001Apis)
         /\ (q.pc \in {"done", "uncaught"} /\ n >= 1 /\ C17_IsApi(q.calls[n]))
              => IF q.outs[n] = "ok"
                 THEN q.resp = <<Resp(302, <<"downloadUrl", q.calls[n]>>, NoData, "")>>
                 ELSE /\ q.calls[n] = part001Apis[Len(part001Apis)]
                      /\ Len(q.resp) = 1
                      /\ q.resp[1].status = 500
         /\ (q.pc \in {"done", "uncaught"} /\ Len(q.resp) >= 1 /\ q.resp[Len(q.resp)].status = 500)
              => (n >= 1 /\ q.calls[n] = part001Apis[Len(part001Apis)] /\ q.outs[n] = "failed")

\* ---- C18
\* C18: server.js GET /api/download/alt with a URL that holds a video id:
\* the external APIs are posted to in listed order, each after the one
\* before it failed or gave no d_url; the request is redirected to the
\* d_url of the first API that returned one, and answered 500 'All download
\* methods failed' exactly when no API returned a d_url.
C18_ExternalApiChain ==
  \A r \in Reqs :
    (/\ variant = "server.js"
     /\ reqs[r].route = "/api/download/alt"
     /\ ~Falsy(reqs[r].param)
     /\ extractVideoId(reqs[r].param) # Null)
      => LET q == reqs[r]
             n == Len(q.calls)
         IN /\ n >= 1
            /\ IsPrefix(q.calls, serverApis)
            /\ \A i \in 2..n : q.outs[i - 1] = "failed"
            /\ q.pc = "done" =>
                 /\ Len(q.outs) = n
                 /\ IF q.outs[n] = "ok"
                    THEN q.resp = <<Resp(302, <<"d_url", serverApis[n]>>, NoData, "")>>
                    ELSE /\ n = Len(serverApis)
                         /\ q.resp = <<Resp(500, Msg("All download methods failed"), NoData, "")>>

\* The first API failed and the request was redirected to the d_url of the
\* second.
C18_Witness ==
  \E r \in Reqs :
    /\ variant = "server.js"
    /\ reqs[r].route = "/api/download/alt"
    /\ reqs[r].pc = "done"
    /\ reqs[r].calls = serverApis
    /\ reqs[r].outs = <<"failed", "ok">>
    /\ reqs[r].resp[1].status = 302

\* ---- C19
\* C19: server.js, part_002: an /api/info request with a URL accepted by
\* ytdl.validateURL that is answered from the cache receives the data of
\* the latest successful extraction stored under its key, and that
\* extraction was made for the same video as the one the request's URL
\* identifies.
C19_HitIsTheSameVideo ==
  [][\A r \in Reqs :
       (ArrivesWithKey(r) /\ reqs'[r].found = "hit") =>
         /\ KeyOf(reqs'[r]) \in DOMAIN lastStore
         /\ reqs'[r].resp[1].data = lastStore[KeyOf(reqs'[r])].data
         /\ reqs'[r].resp[1].data.src = "ytdl"
         /\ URLVideoID(lastStore[KeyOf(reqs'[r])].url) = URLVideoID(reqs'[r].param)]_vars

\* ---- C20
\* C20: in every variant a request gets at most one response: after a
\* status, redirect or body was sent for it, no later step of the request
\* sends, or tries to send, another one.
C20_AtMostOneResponse ==
  \A r \in Reqs : Len(reqs[r].resp) <= 1

\* ---- C21
\* Request r is a download request of server.js or part_002.
C21_DownloadRequest(r) ==
  /\ variant \in {"server.js", "part_002"}
  /\ reqs[r].route = "/api/download"
  /\ reqs[r].pc # "idle"

\* The response of request r is complete: an error status or a redirect was
\* sent, or the piped stream ended and ended the response.
C21_Completed(r) ==
  /\ reqs[r].pc = "done"
  /\ Len(reqs[r].resp) >= 1

\* C21: server.js, part_002: when every extraction stream eventually ends
\* or errors, the response of every /api/download request is eventually
\* completed, also when the stream errors after response bytes were sent.
C21_DownloadResponseCompletes ==
  \A r \in Reqs : C21_DownloadRequest(r) ~> C21_Completed(r)

====
